---- MODULE Spec2Model ----
(***************************************************************************)
(* Enrollment routes (express router over the drizzle tables enrollments,  *)
(* courses, lessons, lessonProgress) and the database importer.            *)
(*                                                                         *)
(* A route handler is an async function: it gives the event loop back at   *)
(* each await of a database statement, so the handlers of other requests   *)
(* run between two of its statements, and never inside the synchronous     *)
(* code between two awaits. Every statement of a handler, with the code    *)
(* that follows it up to the next await, is one action.                    *)
(***************************************************************************)
EXTENDS Integers, Sequences, FiniteSets, TLC

(***************************************************************************)
(* Bounds of the model.                                                    *)
(***************************************************************************)
MaxLessons == 3
MaxOrder == 2
MaxProgressRows == 2
MaxRows == 2
MaxId == 2
MaxMissing == 1
MaxRuns == 2
\* requests the server has in flight or has answered
MaxRequests == 2

(***************************************************************************)
(* Identifiers the requests and the rows are drawn from.                   *)
(***************************************************************************)
CourseIds == {"c1", "c2"}
UserIds == {"u1", "u2"}
EnrollmentIds == {"e1", "e2"}
LessonIds == 1..MaxLessons
\* a course id that matches no row of courses
UnknownCourse == "cX"
\* an enrollment id that matches no row of enrollments
UnknownEnrollment == "eX"
\* the ids a request may name
RequestIds == EnrollmentIds \cup {UnknownEnrollment}
\* a request field that is missing from the JSON body (undefined)
Absent == "<absent>"
\* a NULL completed_at column
NULL == "NULL"
\* a non-null completed_at timestamp
SomeDate == "2025-01-01"
\* the values a PUT /enrollments/:id body may carry for progress
PatchProgress == {150}

VARIABLES
  courses,         \* table courses: rows [id, enrollmentCount]
  lessons,         \* table lessons: rows [id, courseId, order]
  enrollments,     \* table enrollments: rows [id, userId, courseId, progress]
  lessonProgress,  \* table lesson_progress: rows [enrollmentId, lessonId, userId, completedAt, timeSpent, lastPosition]
  response,        \* the last request and the response the client got for it
  exportFiles,     \* importer: the JSON files of db/exports, per table
  tables,          \* importer: the rows of each table, in insertion order
  pc,              \* importer: the next step of importDatabase
  run,             \* importer: which run of the importer this is
  afterFirstRun,   \* importer: the tables as the first run left them
  inflight         \* the requests taken, in order of arrival: the handler's position and locals

dbVars == <<courses, lessons, enrollments, lessonProgress>>
httpVars == <<courses, lessons, enrollments, lessonProgress, response, inflight>>
importVars == <<exportFiles, tables, pc, run, afterFirstRun>>
vars == <<courses, lessons, enrollments, lessonProgress, response,
          exportFiles, tables, pc, run, afterFirstRun, inflight>>

(***************************************************************************)
(* Queries and expressions of the route handlers.                          *)
(***************************************************************************)

\* db.select().from(enrollments).where(eq(enrollments.id, id)).limit(1)
SelectEnrollment(id) == {e \in enrollments : e.id = id}

\* db.select().from(courses).where(eq(courses.id, courseId)).limit(1)
SelectCourse(courseId) == {c \in courses : c.id = courseId}

\* The results of a query ending in .orderBy(lessons.order), P being the
\* pairs <<order column, row>> of its rows: every arrangement of the rows in
\* which the order column never decreases (rows of equal order come in any
\* order the database likes).
RECURSIVE SortByKey(_)
SortByKey(P) ==
  IF P = {} THEN {<<>>}
  ELSE LET first == {p \in P : \A q \in P : p[1] <= q[1]}
       IN UNION {{<<p[2]>> \o rest : rest \in SortByKey(P \ {p})} : p \in first}

LessonOrder(l) == l.order
JoinedOrder(p) == p.lesson.order

\* select from lessons where eq(lessons.courseId, courseId)
CourseLessons(courseId) == {l \in lessons : l.courseId = courseId}

\* select from lessonProgress where and(eq(enrollmentId, id), eq(userId, userId))
CompletedLessons(id, userId) ==
  {p \in lessonProgress : p.enrollmentId = id /\ p.userId = userId}

\* completedLessons.filter((l) => l.completedAt !== null).length
CompletedCount(rows) == Cardinality({l \in rows : l.completedAt # NULL})

(***************************************************************************)
(* Numbers of the handlers are IEEE 754 doubles. A double x >= 0 is kept   *)
(* as [sig, exp], x = sig * 2^exp, the 53 bits of the significand being    *)
(* the three digits <<high, middle, low>> of sig in base 2^24 (an integer  *)
(* of the model has 32 bits). Zero has the significand <<0, 0, 0>>.        *)
(***************************************************************************)
LimbBits == 24
Limb == 2^LimbBits
\* the bits of the high digit of a significand: 53 - 2 * 24
HighBits == 5

\* The bits of a digit of the long division, three digits to a limb.
DigitBits == 8

\* n more bits of the quotient of r / den, r / den < 2 and den < 2^22:
\* <<the bits, what is left of r>>
QuotientBits(r, den, n) ==
  LET bits == (r * 2^(n - 1)) \div den
  IN <<bits, r * 2^n - 2 * bits * den>>

\* 24 more bits of the quotient, a digit at a time
QuotientLimb(r, den) ==
  LET d1 == QuotientBits(r, den, DigitBits)
      d2 == QuotientBits(d1[2], den, DigitBits)
      d3 == QuotientBits(d2[2], den, DigitBits)
  IN <<(d1[1] * 2^DigitBits + d2[1]) * 2^DigitBits + d3[1], d3[2]>>

\* sig \div 2^k
RECURSIVE ShiftRight(_, _)
ShiftRight(sig, k) ==
  IF k = 0 THEN sig
  ELSE IF k >= LimbBits THEN ShiftRight(<<0, sig[1], sig[2]>>, k - LimbBits)
  ELSE <<sig[1] \div 2^k,
         (sig[2] \div 2^k) + (sig[1] % 2^k) * 2^(LimbBits - k),
         (sig[3] \div 2^k) + (sig[2] % 2^k) * 2^(LimbBits - k)>>

\* sig + 1
Increment(sig) ==
  IF sig[3] + 1 < Limb THEN <<sig[1], sig[2], sig[3] + 1>>
  ELSE IF sig[2] + 1 < Limb THEN <<sig[1], sig[2] + 1, 0>>
  ELSE <<sig[1] + 1, 0, 0>>

\* The double nearest to a value between sig * 2^exp and the next
\* significand: it goes up when the value is past the middle of the two
\* (above), or in the middle (half) with sig odd. A significand that goes
\* up to 2^53 is 2^52 with the next exponent.
RoundToNearestEven(sig, exp, half, above) ==
  LET up == above \/ (half /\ sig[3] % 2 = 1)
      next == Increment(sig)
  IN IF ~up THEN [sig |-> sig, exp |-> exp]
     ELSE IF next[1] < 2^HighBits THEN [sig |-> next, exp |-> exp]
     ELSE [sig |-> <<2^(HighBits - 1), 0, 0>>, exp |-> exp + 1]

\* num / den in [1, 2) times 2^e
RECURSIVE Normalise(_, _, _)
Normalise(num, den, e) ==
  IF num >= 2 * den THEN Normalise(num, 2 * den, e + 1)
  ELSE IF num < den THEN Normalise(2 * num, den, e - 1)
  ELSE [num |-> num, den |-> den, e |-> e]

\* completedCount / totalLessons: the double nearest to the quotient of two
\* integers, den > 0. The 53 bits of the quotient are divided out, highest
\* first, and what is left of the dividend decides the rounding.
Divide(num, den) ==
  IF num = 0 THEN [sig |-> <<0, 0, 0>>, exp |-> 0]
  ELSE LET n == Normalise(num, den, 0)
           high == QuotientBits(n.num, n.den, HighBits)
           middle == QuotientLimb(high[2], n.den)
           low == QuotientLimb(middle[2], n.den)
           rest == low[2]
       IN RoundToNearestEven(<<high[1], middle[1], low[1]>>,
                             n.e - (HighBits + 2 * LimbBits - 1),
                             rest = n.den, rest > n.den)

\* x * 100: the double nearest to the product. The product has 6 or 7 bits
\* more than a significand; they are dropped and decide the rounding.
Times100(x) ==
  LET p0 == x.sig[3] * 100
      p1 == x.sig[2] * 100 + p0 \div Limb
      p2 == x.sig[1] * 100 + p1 \div Limb
      product == <<p2, p1 % Limb, p0 % Limb>>
      drop == IF p2 >= 2^(HighBits + 7) THEN 8
              ELSE IF p2 >= 2^(HighBits + 6) THEN 7 ELSE 6
      dropped == product[3] % 2^drop
  IN IF x.sig = <<0, 0, 0>> THEN x
     ELSE RoundToNearestEven(ShiftRight(product, drop), x.exp + drop,
                             dropped = 2^(drop - 1), dropped > 2^(drop - 1))

\* Math.round(x) for a double x >= 0: the integer nearest to x, a half going up
MathRound(x) ==
  IF x.exp >= 0 THEN (x.sig[2] * Limb + x.sig[3]) * 2^x.exp
  ELSE LET whole == ShiftRight(x.sig, -x.exp)
           half == ShiftRight(x.sig, -x.exp - 1)[3] % 2
       IN whole[2] * Limb + whole[3] + half

\* totalLessons > 0 ? Math.round((completedCount / totalLessons) * 100) : 0
ProgressOf(completedCount, totalLessons) ==
  IF totalLessons > 0
  THEN MathRound(Times100(Divide(completedCount, totalLessons)))
  ELSE 0

\* db.update(enrollments).set({ progress }).where(eq(enrollments.id, id))
SetProgress(id, progress) ==
  {IF e.id = id THEN [e EXCEPT !.progress = progress] ELSE e : e \in enrollments}

\* from(lessons).innerJoin(lessonProgress, ...): only the lessons with a row
InnerJoin(id, courseId) ==
  {[lesson |-> l, progress |-> <<p>>] :
     <<l, p>> \in {lp \in lessons \X lessonProgress :
                     /\ lp[1].courseId = courseId
                     /\ lp[2].lessonId = lp[1].id
                     /\ lp[2].enrollmentId = id}}

\* from(lessons).leftJoin(lessonProgress, and(eq(lessonProgress.lessonId,
\* lessons.id), eq(lessonProgress.enrollmentId, id))).where(eq(lessons.courseId,
\* courseId)): one joined row per matching pair, and one with a null progress
\* (the empty sequence) for a lesson that matches no lessonProgress row.
LeftJoin(id, courseId) ==
  {[lesson |-> l, progress |-> <<p>>] :
     <<l, p>> \in {lp \in lessons \X lessonProgress :
                     /\ lp[1].courseId = courseId
                     /\ lp[2].lessonId = lp[1].id
                     /\ lp[2].enrollmentId = id}}
  \cup
  {[lesson |-> l, progress |-> <<>>] :
     l \in {x \in lessons :
              /\ x.courseId = courseId
              /\ ~ \E p \in lessonProgress :
                      p.lessonId = x.id /\ p.enrollmentId = id}}

\* p.progress?.completedAt (undefined, here NULL, when the join found no row)
JoinedCompletedAt(p) ==
  IF p.progress = <<>> THEN NULL ELSE p.progress[1].completedAt

\* p.progress?.timeSpent || 0
JoinedTimeSpent(p) ==
  IF p.progress = <<>> THEN 0 ELSE p.progress[1].timeSpent

\* p.progress?.lastPosition || 0
JoinedLastPosition(p) ==
  IF p.progress = <<>> THEN 0 ELSE p.progress[1].lastPosition

\* progress.reduce((sum, p) => sum + (p.progress?.timeSpent || 0), 0)
RECURSIVE SumTimeSpent(_)
SumTimeSpent(progress) ==
  IF progress = <<>> THEN 0
  ELSE JoinedTimeSpent(Head(progress)) + SumTimeSpent(Tail(progress))

\* progress.map((p) => ({...p.lesson, completed, completedAt, timeSpent, lastPosition}))
LessonDetail(p) ==
  [id |-> p.lesson.id, courseId |-> p.lesson.courseId, order |-> p.lesson.order,
   completed |-> JoinedCompletedAt(p) # NULL,
   completedAt |-> JoinedCompletedAt(p),
   timeSpent |-> JoinedTimeSpent(p),
   lastPosition |-> JoinedLastPosition(p)]

\* The body of GET /enrollments/:id/progress for the joined rows `progress`
ProgressDetail(id, courseId, progress) ==
  LET totalLessons == Len(progress)
      completedLessons ==
        Cardinality({i \in 1..Len(progress) : JoinedCompletedAt(progress[i]) # NULL})
  IN [enrollmentId |-> id,
      courseId |-> courseId,
      totalLessons |-> totalLessons,
      completedLessons |-> completedLessons,
      progressPercentage |-> ProgressOf(completedLessons, totalLessons),
      totalTimeSpent |-> SumTimeSpent(progress),
      lessons |-> [i \in 1..Len(progress) |-> LessonDetail(progress[i])]]

\* res.status(404).json({ error: "Enrollment not found" })
EnrollmentNotFound == [error |-> "Enrollment not found"]


(***************************************************************************)
(* The request and response the client saw last.                           *)
(***************************************************************************)
Resp(op, id, userId, courseId, status, body) ==
  [op |-> op, id |-> id, userId |-> userId, courseId |-> courseId,
   status |-> status, body |-> body]

\* !v of a body field that is a string or undefined
Falsy(v) == v = Absent \/ v = ""

(***************************************************************************)
(* POST /enrollments: what the handler comes to.                          *)
(***************************************************************************)

\* res.status(400).json({ error: "Course ID is required." })
CourseIdRequired == [error |-> <<"Course ID is required.">>]

\* The validation that asks for the user id before it looks at the result of
\* the course select.
PostOutcomeUserFirst(userId, courseId, courseCheck) ==
  IF Falsy(userId) THEN
    [thrown |-> TRUE, status |-> 0, body |-> [error |-> <<"Failed to enroll in course">>]]
  ELSE IF courseCheck = {} THEN
    [thrown |-> FALSE, status |-> 404,
     body |-> [error |-> <<"Course with id ", courseId, " not found">>]]
  ELSE
    [thrown |-> FALSE, status |-> 200,
     body |-> [success |-> TRUE, message |-> "Enrollment validation successful",
               courseId |-> courseId, userId |-> userId]]

\* What the span callback comes to once its select of the course has
\* returned courseCheck, with the catch block around it: a response sent
\* with res, or the error the handler ends up throwing.
PostOutcome(userId, courseId, courseCheck) ==
  IF courseCheck = {} THEN
    [thrown |-> FALSE, status |-> 404,
     body |-> [error |-> <<"Course with id ", courseId, " not found">>]]
  ELSE IF Falsy(userId) THEN
    \* throw new Error("User ID is missing"), caught and thrown again as
    \* new Error("Failed to enroll in course")
    [thrown |-> TRUE, status |-> 0, body |-> [error |-> <<"Failed to enroll in course">>]]
  ELSE
    [thrown |-> FALSE, status |-> 200,
     body |-> [success |-> TRUE, message |-> "Enrollment validation successful",
               courseId |-> courseId, userId |-> userId]]

\* What the client can get when the handler throws. The handler has sent
\* nothing and its promise is rejected (the throw of the catch block); the
\* answer is left to the application around the router, which is not part of
\* these sources: it either answers 500 or leaves the request without a
\* response (status 0, the body field holding the error that was thrown).
UnhandledRouteError(outcome) ==
  { outcome,
    [thrown |-> FALSE, status |-> 500, body |-> [error |-> <<"Internal Server Error">>]] }

(***************************************************************************)
(* The handlers in flight.                                                 *)
(***************************************************************************)
GetOne == "GET /enrollments/:id"
Put == "PUT /enrollments/:id"
GetProgress == "GET /enrollments/:id/progress"
Delete == "DELETE /enrollments/:id"
Post == "POST /enrollments"

\* A handler that was just called: const { id } = req.params, its first
\* statement not yet run by the database, its locals not yet assigned.
NewRequest(op, id, patch) ==
  [op |-> op, id |-> id, patch |-> patch,
   pc |-> IF op = Put THEN "update" ELSE "select",
   enrollment |-> {}, course |-> {}, courseLessons |-> <<>>,
   completedLessons |-> {}, deleted |-> {}]

\* A handler that has answered and returned.
Returned(r) == [NewRequest(r.op, r.id, r.patch) EXCEPT !.pc = "done"]

\* enrollment[0]
First(rows) == CHOOSE x \in rows : TRUE

\* The places of the requests in the order of arrival.
Slots == 1..MaxRequests

\* The server takes a request, MaxRequests of them in all.
Arrives(op, id, patch) ==
  /\ UNCHANGED importVars
  /\ Len(inflight) < MaxRequests
  /\ inflight' = Append(inflight, NewRequest(op, id, patch))
  /\ UNCHANGED <<dbVars, response>>

(***************************************************************************)
(* POST /enrollments                                                       *)
(***************************************************************************)

\* The handler is called with the body { userId, courseId } and runs to its
\* first await: without a courseId it answers 400 at once and returns, with
\* one it issues the select of the course and waits for it.
PostCalled(userId, courseId) ==
  /\ UNCHANGED importVars
  /\ Len(inflight) < MaxRequests
  /\ IF Falsy(courseId)
     THEN /\ response' = Resp(Post, Absent, userId, courseId, 400, CourseIdRequired)
          /\ inflight' = Append(inflight, Returned(NewRequest(Post, Absent, <<>>)))
     ELSE /\ inflight' = Append(inflight, NewRequest(Post, Absent, <<userId, courseId>>))
          /\ UNCHANGED response
  /\ UNCHANGED dbVars

\* const courseCheck = await db.select().from(courses)...limit(1), and the
\* rest of the handler: the 404, the throw for a missing userId, or the 200.
PostSelectCourse(i) ==
  /\ i \in DOMAIN inflight
  /\ UNCHANGED importVars
  /\ inflight[i].op = Post
  /\ inflight[i].pc = "select"
  /\ LET userId == inflight[i].patch[1]
         courseId == inflight[i].patch[2]
         outcome == PostOutcome(userId, courseId, SelectCourse(courseId))
     IN \E sent \in (IF outcome.thrown THEN UnhandledRouteError(outcome) ELSE {outcome}) :
          response' = Resp(Post, Absent, userId, courseId, sent.status, sent.body)
  /\ inflight' = [inflight EXCEPT ![i] = Returned(NewRequest(Post, Absent, <<>>))]
  /\ UNCHANGED dbVars

(***************************************************************************)
(* GET /enrollments/:id                                                    *)
(***************************************************************************)

\* const enrollment = await db.select().from(enrollments)...;
\* if (!enrollment.length) { res.status(404).json(...); return; }
GetSelectEnrollment(i) ==
  /\ i \in DOMAIN inflight
  /\ UNCHANGED importVars
  /\ inflight[i].op = GetOne
  /\ inflight[i].pc = "select"
  /\ LET enrollment == SelectEnrollment(inflight[i].id) IN
     IF enrollment = {}
     THEN /\ response' = Resp(GetOne, inflight[i].id, Absent, Absent, 404,
                              EnrollmentNotFound)
          /\ inflight' = [inflight EXCEPT ![i] = Returned(@)]
          /\ UNCHANGED dbVars
     ELSE /\ inflight' = [inflight EXCEPT ![i].pc = "course",
                                          ![i].enrollment = enrollment]
          /\ UNCHANGED <<dbVars, response>>

\* const course = await db.select().from(courses)
\*   .where(eq(courses.id, enrollment[0].courseId)).limit(1)
GetSelectCourse(i) ==
  /\ i \in DOMAIN inflight
  /\ UNCHANGED importVars
  /\ inflight[i].op = GetOne
  /\ inflight[i].pc = "course"
  /\ inflight' = [inflight EXCEPT
                    ![i].pc = "lessons",
                    ![i].course = SelectCourse(First(inflight[i].enrollment).courseId)]
  /\ UNCHANGED <<dbVars, response>>

\* const courseLessons = await db.select().from(lessons)
\*   .where(eq(lessons.courseId, enrollment[0].courseId)).orderBy(lessons.order)
GetSelectLessons(i) ==
  /\ i \in DOMAIN inflight
  /\ UNCHANGED importVars
  /\ inflight[i].op = GetOne
  /\ inflight[i].pc = "lessons"
  /\ \E courseLessons \in
         SortByKey({<<LessonOrder(l), l>> :
                      l \in CourseLessons(First(inflight[i].enrollment).courseId)}) :
       inflight' = [inflight EXCEPT ![i].pc = "progress",
                                    ![i].courseLessons = courseLessons]
  /\ UNCHANGED <<dbVars, response>>

\* const totalLessons = courseLessons.length; const completedCount = ...;
\* const progress = totalLessons > 0 ? Math.round(...) : 0
GetProgressOf(r) ==
  ProgressOf(CompletedCount(r.completedLessons), Len(r.courseLessons))

\* res.json({ ...enrollment[0], course: course[0], lessons: courseLessons,
\*            completedLessons: completedLessons.map((l) => l.lessonId), progress })
GetResponse(r) ==
  LET e == First(r.enrollment) IN
  Resp(GetOne, r.id, e.userId, e.courseId, 200,
       [id |-> e.id, userId |-> e.userId, courseId |-> e.courseId,
        course |-> r.course,
        lessons |-> r.courseLessons,
        completedLessons |-> {l.lessonId : l \in r.completedLessons},
        progress |-> GetProgressOf(r)])

\* const completedLessons = await db.select().from(lessonProgress)...; then
\* the progress is computed and, if (progress !== enrollment[0].progress),
\* the update is sent; otherwise the handler answers.
GetSelectProgress(i) ==
  /\ i \in DOMAIN inflight
  /\ UNCHANGED importVars
  /\ inflight[i].op = GetOne
  /\ inflight[i].pc = "progress"
  /\ LET e == First(inflight[i].enrollment)
         r == [inflight[i] EXCEPT
                 !.completedLessons = CompletedLessons(inflight[i].id, e.userId)]
     IN IF GetProgressOf(r) # e.progress
        THEN /\ inflight' = [inflight EXCEPT ![i] = [r EXCEPT !.pc = "update"]]
             /\ UNCHANGED <<dbVars, response>>
        ELSE /\ response' = GetResponse(r)
             /\ inflight' = [inflight EXCEPT ![i] = Returned(@)]
             /\ UNCHANGED dbVars

\* await db.update(enrollments).set({ progress }).where(eq(enrollments.id, id));
\* res.json(...)
GetUpdate(i) ==
  /\ i \in DOMAIN inflight
  /\ UNCHANGED importVars
  /\ inflight[i].op = GetOne
  /\ inflight[i].pc = "update"
  /\ enrollments' = SetProgress(inflight[i].id, GetProgressOf(inflight[i]))
  /\ response' = GetResponse(inflight[i])
  /\ inflight' = [inflight EXCEPT ![i] = Returned(@)]
  /\ UNCHANGED <<courses, lessons, lessonProgress>>

GetEnrollment(i) ==
  \/ GetSelectEnrollment(i)
  \/ GetSelectCourse(i)
  \/ GetSelectLessons(i)
  \/ GetSelectProgress(i)
  \/ GetUpdate(i)

(***************************************************************************)
(* PUT /enrollments/:id                                                    *)
(***************************************************************************)

\* The request bodies: one of the fields courseId and progress.
Patches ==
  {<<"courseId", c>> : c \in CourseIds}
  \cup {<<"progress", p>> : p \in PatchProgress}

\* .set({ ...req.body, lastAccessedAt: new Date() }) on the row e (the
\* lastAccessedAt column is read by no handler and is left out of the rows)
ApplyPatch(e, patch) ==
  [f \in DOMAIN e |-> IF f = patch[1] THEN patch[2] ELSE e[f]]

\* const updated = await db.update(enrollments).set(...).where(...).returning();
\* if (!updated.length) { 404 } else res.json(updated[0])
PutEnrollment(i) ==
  /\ i \in DOMAIN inflight
  /\ UNCHANGED importVars
  /\ inflight[i].op = Put
  /\ inflight[i].pc = "update"
  /\ LET id == inflight[i].id
         updated == {ApplyPatch(e, inflight[i].patch) : e \in SelectEnrollment(id)}
     IN IF updated = {}
        THEN /\ response' = Resp(Put, id, Absent, Absent, 404, EnrollmentNotFound)
             /\ UNCHANGED dbVars
        ELSE /\ enrollments' = {e \in enrollments : e.id # id} \cup updated
             /\ response' = Resp(Put, id, Absent, Absent, 200, First(updated))
             /\ UNCHANGED <<courses, lessons, lessonProgress>>
  /\ inflight' = [inflight EXCEPT ![i] = Returned(@)]

(***************************************************************************)
(* GET /enrollments/:id/progress                                           *)
(***************************************************************************)

\* const enrollment = await db.select().from(enrollments)...; 404 without a row
ProgressSelect(i) ==
  /\ i \in DOMAIN inflight
  /\ UNCHANGED importVars
  /\ inflight[i].op = GetProgress
  /\ inflight[i].pc = "select"
  /\ LET enrollment == SelectEnrollment(inflight[i].id) IN
     IF enrollment = {}
     THEN /\ response' = Resp(GetProgress, inflight[i].id, Absent, Absent, 404,
                              EnrollmentNotFound)
          /\ inflight' = [inflight EXCEPT ![i] = Returned(@)]
          /\ UNCHANGED dbVars
     ELSE /\ inflight' = [inflight EXCEPT ![i].pc = "join",
                                          ![i].enrollment = enrollment]
          /\ UNCHANGED <<dbVars, response>>

\* const progress = await db.select({lesson, progress}).from(lessons)
\*   .leftJoin(...).where(eq(lessons.courseId, enrollment[0].courseId))
\*   .orderBy(lessons.order); res.json({...})
ProgressJoin(i) ==
  /\ i \in DOMAIN inflight
  /\ UNCHANGED importVars
  /\ inflight[i].op = GetProgress
  /\ inflight[i].pc = "join"
  /\ LET e == First(inflight[i].enrollment) IN
     \E progress \in SortByKey({<<JoinedOrder(p), p>> :
                                  p \in LeftJoin(inflight[i].id, e.courseId)}) :
       response' = Resp(GetProgress, inflight[i].id, e.userId, e.courseId, 200,
                        ProgressDetail(inflight[i].id, e.courseId, progress))
  /\ inflight' = [inflight EXCEPT ![i] = Returned(@)]
  /\ UNCHANGED dbVars

GetEnrollmentProgress(i) ==
  \/ ProgressSelect(i)
  \/ ProgressJoin(i)

(***************************************************************************)
(* DELETE /enrollments/:id                                                 *)
(***************************************************************************)

\* An unenroll that goes on without the row: the delete matches nothing and
\* reading enrollment[0].courseId throws, which the catch block answers.
DeleteNotFoundThrows(id) ==
  /\ response' = Resp(Delete, id, Absent, Absent, 500,
                      [error |-> "Cannot read properties of undefined"])
  /\ UNCHANGED dbVars

\* if (!enrollment.length) { res.status(404).json(...); return; }
DeleteNotFound(id) ==
  /\ response' = Resp(Delete, id, Absent, Absent, 404, EnrollmentNotFound)
  /\ UNCHANGED dbVars

\* db.delete(enrollments).where(eq(enrollments.id, id))
DeleteRow(id) == {e \in enrollments : e.id # id}

\* The lesson_progress rows that go with a deleted enrollment.
CascadeLessonProgress(id) == {p \in lessonProgress : p.enrollmentId # id}

\* An update of the counter that forgot its where clause.
DecrementEveryCount(courseId) ==
  {[c EXCEPT !.enrollmentCount = c.enrollmentCount - 1] : c \in courses}

\* db.update(courses).set({ enrollmentCount: sql`${courses.enrollmentCount} - 1` })
\*   .where(eq(courses.id, courseId))
DecrementEnrollmentCount(courseId) ==
  {IF c.id = courseId
   THEN [c EXCEPT !.enrollmentCount = c.enrollmentCount - 1]
   ELSE c : c \in courses}

\* The server takes a DELETE request: const { id } = req.params
DeleteArrives(id) == Arrives(Delete, id, <<>>)

\* const enrollment = await db.select()...; if (!enrollment.length) { 404 }
DeleteSelect(i) ==
  /\ i \in DOMAIN inflight
  /\ UNCHANGED importVars
  /\ inflight[i].op = Delete
  /\ inflight[i].pc = "select"
  /\ LET enrollment == SelectEnrollment(inflight[i].id) IN
     IF enrollment = {}
     THEN /\ DeleteNotFound(inflight[i].id)
          /\ inflight' = [inflight EXCEPT ![i] = Returned(@)]
     ELSE /\ inflight' = [inflight EXCEPT ![i].pc = "delete",
                                          ![i].enrollment = enrollment]
          /\ UNCHANGED <<dbVars, response>>

\* await db.delete(enrollments).where(eq(enrollments.id, id)): of the row if
\* it is still there, of nothing if another request deleted it meanwhile.
\* The rows the statement removed are its result, which the handler drops.
DeleteStatement(i) ==
  /\ i \in DOMAIN inflight
  /\ UNCHANGED importVars
  /\ inflight[i].op = Delete
  /\ inflight[i].pc = "delete"
  /\ enrollments' = DeleteRow(inflight[i].id)
  /\ lessonProgress' = CascadeLessonProgress(inflight[i].id)
  /\ inflight' = [inflight EXCEPT ![i].pc = "update",
                                  ![i].deleted = SelectEnrollment(inflight[i].id)]
  /\ UNCHANGED <<courses, lessons, response>>

\* await db.update(courses)....where(eq(courses.id, enrollment[0].courseId));
\* res.json({ success: true, deletedId: id })
DeleteUpdate(i) ==
  /\ i \in DOMAIN inflight
  /\ UNCHANGED importVars
  /\ inflight[i].op = Delete
  /\ inflight[i].pc = "update"
  /\ courses' = DecrementEnrollmentCount(First(inflight[i].enrollment).courseId)
  /\ response' = Resp(Delete, inflight[i].id, Absent, Absent, 200,
                      [success |-> TRUE, deletedId |-> inflight[i].id])
  /\ inflight' = [inflight EXCEPT ![i] = Returned(@)]
  /\ UNCHANGED <<lessons, enrollments, lessonProgress>>

DeleteEnrollment(i) ==
  \/ DeleteSelect(i)
  \/ DeleteStatement(i)
  \/ DeleteUpdate(i)

(***************************************************************************)
(* importDatabase                                                          *)
(***************************************************************************)

\* The tables in the order the importer loads them.
TableOrder ==
  <<"users", "categories", "courses", "lessons", "enrollments",
    "lesson_progress", "reviews", "certificates">>

TableNames == {TableOrder[i] : i \in 1..Len(TableOrder)}

\* The column a row conflicts on: its primary key.
RowKey(row) == row.id

\* db.insert(table).values(values) of a table that checks no key.
RECURSIVE InsertAll(_, _)
InsertAll(rows, values) ==
  IF values = <<>> THEN rows
  ELSE InsertAll(Append(rows, Head(values)), Tail(values))

\* db.insert(table).values(values).onConflictDoNothing(): the values are
\* inserted in order, one whose key a row of the table already has (an older
\* row, or an earlier value of this same statement) being skipped.
RECURSIVE InsertOnConflictDoNothing(_, _)
InsertOnConflictDoNothing(rows, values) ==
  IF values = <<>> THEN rows
  ELSE LET v == Head(values)
           conflict == \E i \in 1..Len(rows) : RowKey(rows[i]) = RowKey(v)
       IN InsertOnConflictDoNothing(IF conflict THEN rows ELSE Append(rows, v),
                                    Tail(values))

\* if (fs.existsSync(path)) { data = JSON.parse(...);
\*   if (data.length > 0) { await db.insert(t).values(data).onConflictDoNothing() } }
ImportTable(t) ==
  IF exportFiles[t].exists /\ Len(exportFiles[t].data) > 0
  THEN tables' = [tables EXCEPT ![t] = InsertOnConflictDoNothing(@, exportFiles[t].data)]
  ELSE UNCHANGED tables

\* JSON.parse(fs.readFileSync(path)) returns: the file holds JSON. A file that
\* does not makes it throw, and the catch of importDatabase ends the run.
Parses(file) == file.parses

\* One of the eight numbered blocks of importDatabase: a file that is there is
\* parsed before anything is inserted, so a file that is not JSON sends the run
\* to the catch block with the earlier tables imported and this one untouched.
ImportStep(n) ==
  /\ pc = n
  /\ IF exportFiles[TableOrder[n]].exists /\ ~Parses(exportFiles[TableOrder[n]])
     THEN pc' = -1 /\ UNCHANGED tables
     ELSE pc' = n + 1 /\ ImportTable(TableOrder[n])
  /\ UNCHANGED <<exportFiles, run, afterFirstRun>>
  /\ UNCHANGED httpVars

\* The steps before the first table: the export directory and metadata.json
\* must exist, metadata.json must parse and its tables field must be an
\* object (Object.entries throws on undefined), or the run throws and ends
\* in process.exit(1) with no table touched.
CheckExport ==
  /\ pc = 0
  /\ pc' = IF /\ exportFiles.directory.exists
              /\ exportFiles.metadata.exists
              /\ Parses(exportFiles.metadata)
              /\ exportFiles.metadata.tables
           THEN 1 ELSE -1
  /\ UNCHANGED <<exportFiles, tables, run, afterFirstRun>>
  /\ UNCHANGED httpVars

ImportUsers == ImportStep(1)
ImportCategories == ImportStep(2)
ImportCourses == ImportStep(3)
ImportLessons == ImportStep(4)
ImportEnrollments == ImportStep(5)
ImportLessonProgress == ImportStep(6)
ImportReviews == ImportStep(7)
ImportCertificates == ImportStep(8)

\* process.exit(0) after the last table, process.exit(1) from the catch block
Exit ==
  /\ pc = Len(TableOrder) + 1 \/ pc = -1
  /\ pc' = IF pc = -1 THEN -3 ELSE -2
  /\ afterFirstRun' = IF run = 1 THEN tables ELSE afterFirstRun
  /\ UNCHANGED <<exportFiles, tables, run>>
  /\ UNCHANGED httpVars

\* The importer is started again on the same export.
RunAgain(limit) ==
  /\ pc \in {-2, -3}
  /\ run < limit
  /\ run' = run + 1
  /\ pc' = 0
  /\ UNCHANGED <<exportFiles, tables, afterFirstRun>>
  /\ UNCHANGED httpVars

(***************************************************************************)
(* Initial states.                                                         *)
(***************************************************************************)

\* The lessonProgress row of enrollment e for lesson l, completed or not.
ProgressRow(e, l, completedAt) ==
  [enrollmentId |-> e.id, lessonId |-> l.id, userId |-> e.userId,
   completedAt |-> completedAt,
   timeSpent |-> IF completedAt = NULL THEN 5 ELSE 9,
   lastPosition |-> IF completedAt = NULL THEN 3 ELSE 0]

\* The course of the first lessons, and the order column of each lesson: lessons of
\* equal order, and lessons whose order runs against their ids.
FirstCourse == "c1"
InitialOrder(l) == (l % MaxOrder) + 1
\* Who is enrolled: each enrollment is another user's.
InitialUser(e) == IF e = "e1" THEN "u1" ELSE "u2"

\* No importer is running: no export is read and no table is loaded.
ImportIdle ==
  /\ exportFiles = <<>>
  /\ tables = <<>>
  /\ pc = -2
  /\ run = MaxRuns
  /\ afterFirstRun = <<>>

\* The server's database: every course, lessons 1 and 2 in the first course
\* and the other lessons in any, every enrollment in the first course at progress 0
\* with a counter that agrees, and lesson-progress rows of those enrollments
\* for lessons of their course, one at most per enrollment and lesson.
Init ==
  /\ \E cf \in [LessonIds -> CourseIds] :
       /\ \A l \in LessonIds : l <= 2 => cf[l] = FirstCourse
       /\ lessons = {[id |-> l, courseId |-> cf[l], order |-> InitialOrder(l)] :
                       l \in LessonIds}
  /\ enrollments = {[id |-> e, userId |-> InitialUser(e), courseId |-> FirstCourse,
                     progress |-> 0] : e \in EnrollmentIds}
  /\ courses = {[id |-> c,
                 enrollmentCount |-> Cardinality({e \in enrollments : e.courseId = c})] :
                  c \in CourseIds}
  /\ \E pairs \in SUBSET {el \in enrollments \X lessons : el[2].courseId = el[1].courseId} :
       /\ Cardinality(pairs) <= MaxProgressRows
       /\ \E done \in SUBSET pairs :
            lessonProgress =
              {ProgressRow(el[1], el[2], IF el \in done THEN SomeDate ELSE NULL) :
                 el \in pairs}
  /\ response = Resp("none", Absent, Absent, Absent, 0, <<>>)
  /\ inflight = <<>>
  /\ ImportIdle

\* The requests about the enrollment rows, taken at any moment, and the
\* handlers in flight, any of which goes on when the database has run its
\* statement. The unenroll is also asked for an id that never had a row.
\* The values a POST /enrollments body may carry.
PostUserIds == UserIds \cup {Absent, ""}
PostCourseIds == CourseIds \cup {UnknownCourse, Absent, ""}

Next ==
  \/ \E id \in EnrollmentIds : Arrives(GetOne, id, <<>>)
  \/ \E id \in EnrollmentIds, patch \in Patches :
       Arrives(Put, id, patch)
  \/ \E id \in EnrollmentIds : Arrives(GetProgress, id, <<>>)
  \/ \E id \in RequestIds : DeleteArrives(id)
  \/ \E userId \in PostUserIds, courseId \in PostCourseIds :
       PostCalled(userId, courseId)
  \/ \E i \in Slots : PostSelectCourse(i)
  \/ \E i \in Slots : GetEnrollment(i)
  \/ \E i \in Slots : PutEnrollment(i)
  \/ \E i \in Slots : GetEnrollmentProgress(i)
  \/ \E i \in Slots : DeleteEnrollment(i)

Spec == Init /\ [][Next]_vars

\* The unenroll requests the server handles at once: a request arrives at
\* any moment, and any handler that waits on the database goes on.
NextDelete ==
  \/ \E id \in RequestIds : DeleteArrives(id)
  \/ \E i \in Slots : DeleteSelect(i)
  \/ \E i \in Slots : DeleteStatement(i)
  \/ \E i \in Slots : DeleteUpdate(i)

SpecDelete == Init /\ [][NextDelete]_vars

(***************************************************************************)
(* The importer run on its own, MaxRuns times over one export.             *)
(***************************************************************************)

ExportRows == {[id |-> i, data |-> "exported"] : i \in 1..MaxId}

FileContents == UNION {[1..n -> ExportRows] : n \in 0..MaxRows}

\* The rows a table holds before the import, by the keys they have.
ExistingRows(seeded) ==
  LET Seeded(r) == r.id \in seeded
  IN SelectSeq([i \in 1..MaxId |-> [id |-> i, data |-> "existing"]], Seeded)

ServerIdle ==
  /\ courses = {}
  /\ lessons = {}
  /\ enrollments = {}
  /\ lessonProgress = {}
  /\ response = Resp("none", Absent, Absent, Absent, 0, <<>>)
  /\ inflight = <<>>

\* A file of db/exports: whether it is there, whether it holds JSON, whether
\* the JSON has a tables object (read for metadata.json only), and its rows.
ExportFile(exists, parses, hasTables, data) ==
  [exists |-> exists, parses |-> parses, tables |-> hasTables, data |-> data]

\* The states metadata.json can be in: missing, not JSON, JSON without a
\* tables object, and complete.
MetadataFiles ==
  { ExportFile(FALSE, FALSE, FALSE, <<>>), ExportFile(TRUE, FALSE, FALSE, <<>>),
    ExportFile(TRUE, TRUE, FALSE, <<>>), ExportFile(TRUE, TRUE, TRUE, <<>>) }

\* An export whose table files all hold the same rows, some of the files
\* missing or not JSON, a metadata.json in any of its states, or no export
\* directory at all, and a database that already holds some of the keys in
\* every table.
InitImport ==
  /\ ServerIdle
  /\ \/ exportFiles =
          [t \in TableNames \cup {"metadata", "directory"} |->
             ExportFile(FALSE, FALSE, FALSE, <<>>)]
     \/ \E missing \in SUBSET TableNames, damaged \in SUBSET TableNames,
           data \in FileContents, metadata \in MetadataFiles :
          /\ missing \cap damaged = {}
          /\ Cardinality(missing \cup damaged) <= MaxMissing
          /\ exportFiles =
               [t \in TableNames \cup {"metadata", "directory"} |->
                  CASE t = "metadata" -> metadata
                    [] t = "directory" -> ExportFile(TRUE, FALSE, FALSE, <<>>)
                    [] t \in missing -> ExportFile(FALSE, FALSE, FALSE, <<>>)
                    [] t \in damaged -> ExportFile(TRUE, FALSE, FALSE, <<>>)
                    [] OTHER -> ExportFile(TRUE, TRUE, FALSE, data)]
  /\ \E seeded \in SUBSET (1..MaxId) :
       tables = [t \in TableNames |-> ExistingRows(seeded)]
  /\ pc = 0
  /\ run = 1
  /\ afterFirstRun = tables

NextImport ==
  \/ CheckExport
  \/ ImportUsers
  \/ ImportCategories
  \/ ImportCourses
  \/ ImportLessons
  \/ ImportEnrollments
  \/ ImportLessonProgress
  \/ ImportReviews
  \/ ImportCertificates
  \/ Exit
  \/ RunAgain(MaxRuns)

SpecImport == InitImport /\ [][NextImport]_vars


(***************************************************************************)
(* Properties.                                                             *)
(***************************************************************************)

\* round(100 * completed / total), halves upwards, and 0 for no lessons
RoundedPercent(completed, total) ==
  IF total = 0 THEN 0
  ELSE CHOOSE r \in 0..(100 * completed + 1) :
         2 * total * r <= 200 * completed + total
         /\ 200 * completed + total < 2 * total * (r + 1)

\* The lessons of course c that enrollment id has completed.
LessonsCompletedUnder(id, c) ==
  {l \in CourseLessons(c) :
     \E p \in lessonProgress :
       p.enrollmentId = id /\ p.lessonId = l.id /\ p.completedAt # NULL}

\* Request i answers in this step.
Completes(i, op) ==
  /\ inflight[i].op = op
  /\ inflight[i].pc # "done"
  /\ inflight'[i].pc = "done"

\* The enrollment row is, before this step, as request i read it.
RowAsRead(i) == SelectEnrollment(inflight[i].id) = inflight[i].enrollment

\* C1: when GET /enrollments/:id answers 200, the progress it returns and
\* the progress stored on the row both equal round(100 * completedLessons /
\* totalLessons), over the lessons of the enrollment's course and those of
\* them completed under the enrollment (0 when the course has no lesson).
\* The request is one no other request has changed the row of since it was
\* read, so that the database state the claim speaks of is one state.
C1_ProgressIsCompletedShareOfCourse ==
  [][\A i \in DOMAIN inflight :
       (Completes(i, GetOne) /\ response'.status = 200 /\ RowAsRead(i)) =>
         LET e == First(inflight[i].enrollment)
             expected == RoundedPercent(
                           Cardinality(LessonsCompletedUnder(e.id, e.courseId)),
                           Cardinality(CourseLessons(e.courseId)))
         IN /\ response'.body.progress = expected
            /\ {x.progress : x \in {y \in enrollments' : y.id = e.id}} = {expected}
    ]_vars

\* C2: after a read of an enrollment by GET /enrollments/:id the stored
\* progress is an integer in [0,100], whatever PUT patches came before.
C2_StoredProgressInRange ==
  [][\A i \in DOMAIN inflight :
       (Completes(i, GetOne) /\ response'.status = 200) =>
         \A y \in enrollments' : y.id = inflight[i].id => y.progress \in 0..100
    ]_vars

\* C3: the lessons array of GET /enrollments/:id/progress has one entry per
\* lesson of the enrollment's course, in lesson order, totalLessons is that
\* number, and a lesson without a progress row of the enrollment appears
\* with completed = false, timeSpent = 0 and lastPosition = 0. The
\* enrollment's course is the courseId of the row as the request read it,
\* which the response carries.
C3_DetailHasEveryLesson ==
  [][\A i \in DOMAIN inflight :
       (Completes(i, GetProgress) /\ response'.status = 200) =>
         LET e == First(inflight[i].enrollment)
             ls == response'.body.lessons
             course == CourseLessons(e.courseId)
         IN /\ response'.body.courseId = e.courseId
            /\ Len(ls) = Cardinality(course)
            /\ response'.body.totalLessons = Cardinality(course)
            /\ {ls[k].id : k \in 1..Len(ls)} = {l.id : l \in course}
            /\ \A j, k \in 1..Len(ls) : j < k => ls[j].order <= ls[k].order
            /\ \A k \in 1..Len(ls) :
                 (~ \E p \in lessonProgress :
                       p.enrollmentId = e.id /\ p.lessonId = ls[k].id)
                 => /\ ls[k].completed = FALSE
                    /\ ls[k].timeSpent = 0
                    /\ ls[k].lastPosition = 0
    ]_vars

\* A progress detail of a course of several lessons, one completed under
\* the enrollment and one with no progress row of the enrollment but with a
\* row of another enrollment.
C3_Witness ==
  /\ response.op = GetProgress
  /\ response.status = 200
  /\ Len(response.body.lessons) >= 2
  /\ \E i, j \in 1..Len(response.body.lessons) :
       /\ response.body.lessons[i].completed
       /\ ~ \E p \in lessonProgress :
             p.enrollmentId = response.id
             /\ p.lessonId = response.body.lessons[j].id
       /\ \E p \in lessonProgress :
             p.enrollmentId # response.id
             /\ p.lessonId = response.body.lessons[j].id

\* The enrollmentCount of course c.
CountOf(cs, c) == (CHOOSE r \in cs : r.id = c).enrollmentCount

\* C4: a DELETE /enrollments/:id that found the row: its delete statement
\* removes that row and no other and touches no counter; its update takes
\* exactly 1 from the enrollmentCount of the row's course (the courseId
\* the request read) and nothing from any other course, leaves the
\* enrollment rows alone, and the request answers 200 with the deleted id.
C4_UnenrollRemovesRowAndDecrements ==
  [][\A i \in DOMAIN inflight :
       LET r == inflight[i] IN
       (r.op = Delete /\ r.enrollment # {} /\ inflight'[i] # r) =>
         \/ /\ r.pc = "delete"
            /\ inflight'[i].pc = "update"
            /\ enrollments' = enrollments \ SelectEnrollment(r.id)
            /\ courses' = courses
            /\ response' = response
         \/ /\ r.pc = "update"
            /\ inflight'[i].pc = "done"
            /\ response' = Resp(Delete, r.id, Absent, Absent, 200,
                                [success |-> TRUE, deletedId |-> r.id])
            /\ SelectEnrollment(r.id) = {}
            /\ enrollments' = enrollments
            /\ \A c \in CourseIds :
                 CountOf(courses', c) =
                   CountOf(courses, c)
                   - (IF c = First(r.enrollment).courseId THEN 1 ELSE 0)
    ]_vars

\* An unenroll that left another enrollment behind, in a course other than
\* the one whose counter went down.
C4_Witness ==
  /\ response.op = Delete
  /\ response.status = 200
  /\ \E e \in enrollments : CountOf(courses, e.courseId) = 1
  /\ \E c \in CourseIds : CountOf(courses, c) = 0

\* C5: DELETE /enrollments/:id of an id with no row (never there, or
\* deleted by an earlier DELETE) answers 404 and changes no enrollment row
\* and no enrollmentCount.
C5_UnenrollOfMissingIs404 ==
  [][\A i \in DOMAIN inflight :
       LET r == inflight[i] IN
       (/\ r.op = Delete
        /\ r.pc = "select"
        /\ SelectEnrollment(r.id) = {}
        /\ inflight'[i] # r) =>
         /\ response' = Resp(Delete, r.id, Absent, Absent, 404, EnrollmentNotFound)
         /\ inflight'[i].pc = "done"
         /\ enrollments' = enrollments
         /\ courses' = courses
         /\ lessonProgress' = lessonProgress
    ]_vars

\* A second DELETE of an enrollment that an earlier DELETE removed.
C5_Witness ==
  /\ response.op = Delete
  /\ response.status = 404
  /\ response.id \in EnrollmentIds
  /\ SelectEnrollment(response.id) = {}

\* A POST /enrollments answers in this step: at its call, or when its
\* select of the course returns. response' is then its answer.
PostAnswers ==
  \/ /\ Len(inflight') = Len(inflight) + 1
     /\ inflight'[Len(inflight')].op = Post
     /\ inflight'[Len(inflight')].pc = "done"
  \/ \E i \in DOMAIN inflight : Completes(i, Post)

\* A step of a POST /enrollments handler: its call or its continuation.
PostSteps ==
  \/ /\ Len(inflight') = Len(inflight) + 1
     /\ inflight'[Len(inflight')].op = Post
  \/ \E i \in DOMAIN inflight : Completes(i, Post)

\* C6 as stated: a POST /enrollments without courseId answers 400 "Course ID
\* is required.", one whose courseId is present and matches no course
\* answers 404 "Course with id <courseId> not found", with or without a
\* userId, and no step of the request changes the database.
C6_CourseValidatedFirst ==
  [][/\ PostSteps => UNCHANGED dbVars
     /\ PostAnswers =>
          /\ response'.courseId = Absent =>
               /\ response'.status = 400
               /\ response'.body = [error |-> <<"Course ID is required.">>]
          /\ (response'.courseId # Absent /\ SelectCourse(response'.courseId) = {}) =>
               /\ response'.status = 404
               /\ response'.body =
                    [error |-> <<"Course with id ", response'.courseId, " not found">>]
    ]_vars

\* C6 amended: the 400 is the answer to a courseId that is absent or empty,
\* the 404 the answer to a non-empty courseId that matches no course, with
\* or without a userId, and no step of the request changes the database.
C6_CourseValidatedFirst_Amended ==
  [][/\ PostSteps => UNCHANGED dbVars
     /\ PostAnswers =>
          /\ (response'.courseId = Absent \/ response'.courseId = "") =>
               /\ response'.status = 400
               /\ response'.body = [error |-> <<"Course ID is required.">>]
          /\ (/\ response'.courseId # Absent
              /\ response'.courseId # ""
              /\ SelectCourse(response'.courseId) = {}) =>
               /\ response'.status = 404
               /\ response'.body =
                    [error |-> <<"Course with id ", response'.courseId, " not found">>]
    ]_vars

\* An enroll request without a userId that was turned down for its course.
C6_Witness ==
  /\ response.op = Post
  /\ response.userId = Absent
  /\ response.courseId = UnknownCourse
  /\ response.status = 404

\* C8: when a POST /enrollments answers 200, echoing courseId and userId,
\* an enrollment row linking that user to that course exists.
C8_EnrollCreatesRow ==
  [][(PostAnswers /\ response'.status = 200) =>
       /\ response'.body.courseId = response'.courseId
       /\ response'.body.userId = response'.userId
       /\ \E e \in enrollments' :
            e.userId = response'.userId /\ e.courseId = response'.courseId
    ]_vars

\* C9: a run of the importer after the first, over the same export, inserts
\* no row into any table: at each of its steps and at its end every table
\* is as the first run left it.
C9_SecondImportInsertsNothing ==
  run >= 2 => \A t \in TableNames : tables[t] = afterFirstRun[t]

\* A second run that went through every table, after a first run that had
\* inserted rows beside rows the database already had.
C9_Witness ==
  /\ run = 2
  /\ pc = -2
  /\ \E t \in TableNames :
       /\ \E i \in 1..Len(tables[t]) : tables[t][i].data = "exported"
       /\ \E i \in 1..Len(tables[t]) : tables[t][i].data = "existing"
       /\ Len(exportFiles[t].data) > 1

\* C10: on one database state the two progress endpoints agree: the
\* progressPercentage of GET /enrollments/:id/progress is the progress that
\* GET /enrollments/:id computes, and its completedLessons is the number of
\* rows with a completedAt that GET /enrollments/:id counts. The state is
\* the one the progress request answers in, the row being as it read it.
C10_ProgressEndpointsAgree ==
  [][\A i \in DOMAIN inflight :
       (Completes(i, GetProgress) /\ response'.status = 200 /\ RowAsRead(i)) =>
         LET e == First(inflight[i].enrollment)
             completedCount == CompletedCount(CompletedLessons(e.id, e.userId))
             totalLessons == Cardinality(CourseLessons(e.courseId))
         IN /\ response'.body.completedLessons = completedCount
            /\ response'.body.progressPercentage =
                 ProgressOf(completedCount, totalLessons)
    ]_vars

(***************************************************************************)
(* C11                                                                     *)
(***************************************************************************)

\* The enrollment rows of course c, and its counter, before any request:
\* Init enrolls everyone in the first course and counts them.
RowsAtStart(c) == IF c = FirstCourse THEN EnrollmentIds ELSE {}
CountAtStart(c) == Cardinality(RowsAtStart(c))
\* The rows of course c that the requests removed.
RowsRemoved(c) == RowsAtStart(c) \ {e.id : e \in enrollments}
AllDeletesCompleted ==
  /\ inflight # <<>>
  /\ \A i \in DOMAIN inflight : inflight[i].pc = "done"

\* C11: under any interleaving of concurrent DELETE /enrollments/:id
\* requests, once all of them have completed, each course's enrollmentCount
\* has decreased by exactly the number of that course's enrollment rows
\* that were removed: two requests for one enrollment never decrement the
\* counter twice for one removed row.
C11_ConcurrentDeletesDecrementOncePerRow ==
  AllDeletesCompleted =>
    \A c \in CourseIds :
      CountAtStart(c) - CountOf(courses, c) = Cardinality(RowsRemoved(c))

====
